---- MODULE Spec2Model ----
(***************************************************************************)
(* Model of scripts/merge_fonts.py: the sequential pipeline of main()       *)
(* (fetch, download, extract, locate, merge, patch, copy), the helper       *)
(* functions it calls, the top-level exception handler, and the glyph-copy  *)
(* script that merge_fonts generates for fontforge.                         *)
(*                                                                         *)
(* Paths are modelled as records [parent, stem, ext]: parent is the name of  *)
(* the containing directory and stem the part of the file name before the   *)
(* first dot, both cut into the substrings the code searches for, and ext   *)
(* is the sequence of dot-separated extensions.                             *)
(***************************************************************************)
EXTENDS Integers, Sequences, FiniteSets, TLC

\* ------------------------------------------------------------------ bounds
\* longest asset list of a release payload
MaxAssets == 2
\* most font files inside one downloaded archive
MaxFonts == 2
\* number of runs of the script over the same work/ and output/ directories
MaxRuns == 2
\* most glyphs in a font handed to the generated fontforge script
MaxGlyphs == 1

\* ------------------------------------------------------------ basic values
\* Python's None (every nullable value of the model is a record)
None == [kind |-> "None"]

Path(parent, stem, ext) == [parent |-> parent, stem |-> stem, ext |-> ext]

\* 'tok' in name
Contains(s, tok) == \E i \in 1..Len(s) : s[i] = tok

\* name.endswith('.e1.e2...'), on the extensions of a name
EndsWithExt(p, suffix) ==
    /\ Len(p.ext) >= Len(suffix)
    /\ \A i \in 1..Len(suffix) : p.ext[Len(p.ext) - Len(suffix) + i] = suffix[i]

\* all orders in which a directory scan may list the set S
Perms(S) ==
    {q \in [1..Cardinality(S) -> S] : \A i, j \in 1..Cardinality(S) : i # j => q[i] # q[j]}

\* all sequences over S of length at most n
SeqsUpTo(S, n) == UNION {[1..k -> S] : k \in 0..n}

\* all subsets of S with at most n elements
SubsetsUpTo(S, n) == {T \in SUBSET S : Cardinality(T) <= n}

\* for x in s: if <test>: found = x; break -- hits are the positions of s at
\* which the test holds; None when there are none
FirstMatch(s, hits) ==
    IF hits # {}
    THEN s[CHOOSE i \in hits : \A j \in hits : i <= j]
    ELSE None

Exception(type, msg) == [type |-> type, msg |-> msg]

\* ---------------------------------------------------------- the three repos
RepoOrder == <<"lxgw", "jb", "nerd">>

RepoName(r) ==
    CASE r = "lxgw" -> "lxgw/LxgwWenKai"
      [] r = "jb" -> "JetBrains/JetBrainsMono"
      [] r = "nerd" -> "ryanoasis/nerd-fonts"

\* the asset filter of each repository
AssetMatches(r, name) ==
    CASE r = "lxgw" -> Contains(name.stem, "lxgw-wenkai-") /\ EndsWithExt(name, <<"tar", "gz">>)
      [] r = "jb" -> Contains(name.stem, "JetBrainsMono-") /\ EndsWithExt(name, <<"zip">>)
      [] r = "nerd" -> name = Path(<<>>, <<"FontPatcher">>, <<"zip">>)

AssetMissingMsg(r) ==
    CASE r = "lxgw" -> "Could not find LXGW WenKai font asset"
      [] r = "jb" -> "Could not find JetBrains Mono font asset"
      [] r = "nerd" -> "Could not find Nerd Font patcher asset"

\* for asset in release['assets']: if <filter>: <asset> = asset; break
FindAsset(r, assets) ==
    FirstMatch(assets, {i \in 1..Len(assets) : AssetMatches(r, assets[i].name)})

\* the local archive path of a repository's asset
ArchiveName(r, a) ==
    IF r = "nerd" THEN Path(<<"downloads">>, <<"FontPatcher">>, <<"zip">>)
    ELSE [a.name EXCEPT !.parent = <<"downloads">>]

\* ------------------------------------------------------------- extract_archive
\* a variant of extract_archive whose second test accepts every name ending in .gz
Mutextract_archive(archive, dest) ==
    LET made == [dest EXCEPT !.exists = TRUE]
        unpacked == [made EXCEPT !.entries = made.entries \cup archive.members]
    IN  IF EndsWithExt(archive.name, <<"zip">>)
        THEN IF archive.ok THEN [exc |-> None, dest |-> unpacked]
             ELSE [exc |-> Exception("BadZipFile", "File is not a zip file"), dest |-> made]
        ELSE IF EndsWithExt(archive.name, <<"gz">>) \/ EndsWithExt(archive.name, <<"tgz">>)
        THEN IF archive.ok THEN [exc |-> None, dest |-> unpacked]
             ELSE [exc |-> Exception("ReadError", "not a gzip file"), dest |-> made]
        ELSE [exc |-> Exception("ValueError", "Unsupported archive format"), dest |-> made]

\* extract_archive(archive_path, dest_dir): archive is the file at archive_path
\* ([name, members, ok]), dest the destination directory ([exists, entries]).
\* Returns the exception raised (None on return) and the directory afterwards:
\* dest_dir.mkdir(parents=True, exist_ok=True), then the dispatch on the name:
\* ZipFile(...).extractall, tarfile.open(..., 'r:gz').extractall, or ValueError.
\* A damaged archive fails when it is opened, before any member is written.
extract_archive(archive, dest) ==
    LET made == [dest EXCEPT !.exists = TRUE]
        unpacked == [made EXCEPT !.entries = made.entries \cup archive.members]
    IN  IF EndsWithExt(archive.name, <<"zip">>)
        THEN IF archive.ok THEN [exc |-> None, dest |-> unpacked]
             ELSE [exc |-> Exception("BadZipFile", "File is not a zip file"), dest |-> made]
        ELSE IF EndsWithExt(archive.name, <<"tar", "gz">>) \/ EndsWithExt(archive.name, <<"tgz">>)
        THEN IF archive.ok THEN [exc |-> None, dest |-> unpacked]
             ELSE [exc |-> Exception("ReadError", "not a gzip file"), dest |-> made]
        ELSE [exc |-> Exception("ValueError", "Unsupported archive format"), dest |-> made]

\* ------------------------------------------------------------------ find_fonts
\* directory.rglob("*.ttf"): the files whose last extension is ttf
find_fonts(entries) == {f \in entries : EndsWithExt(f, <<"ttf">>)}

\* ---------------------------------------------------------------- merge_fonts
\* range(0x3000, 0x303F + 1)
CJKSymbolsFirst == 12288
CJKSymbolsLast == 12351
\* range(0x3400, 0x4DBF + 1)
ExtensionAFirst == 13312
ExtensionALast == 19903
\* range(0x4E00, 0x9FFF + 1)
UnifiedFirst == 19968
UnifiedLast == 40959

\* Python's range(a, b), and "c in range(a, b)"
Range(a, b) == [start |-> a, stop |-> b]

InRange(c, r) == r.start <= c /\ c < r.stop

\* a variant of ScriptRanges whose first loop stops before U+303F
MutScriptRanges ==
    << Range(CJKSymbolsFirst, CJKSymbolsLast),
       Range(ExtensionAFirst, ExtensionALast + 1),
       Range(UnifiedFirst, UnifiedLast + 1) >>

\* the three copy loops of the generated script, in script order
ScriptRanges ==
    << Range(CJKSymbolsFirst, CJKSymbolsLast + 1),
       Range(ExtensionAFirst, ExtensionALast + 1),
       Range(UnifiedFirst, UnifiedLast + 1) >>

\* the instruction script merge_fonts writes: what it opens, in which role,
\* the loops, the metadata assignments and the export path
merge_script(lxgw_font, jb_font, output_font) ==
    [ base_open    |-> jb_font,
      chinese_open |-> lxgw_font,
      ranges       |-> ScriptRanges,
      familyname   |-> "LXGW JB",
      fullname     |-> "LXGW JB Mono",
      fontname     |-> "LXGWJB-Mono",
      output_path  |-> output_font ]

\* a variant of MergeCleanup that unlinks after the subprocess call instead of
\* in a finally clause
MutMergeCleanup(script, outcome) == IF outcome = "zero" THEN None ELSE script

\* the finally clause of merge_fonts: merge_script_path.unlink(), whatever the
\* outcome of subprocess.run was
MergeCleanup(script, outcome) == None

\* a variant of SubprocessError without check=True
MutSubprocessError(outcome) ==
    CASE outcome = "zero" -> None
      [] outcome = "nonzero" -> None
      [] outcome = "notstarted" -> Exception("OSError", "Command could not be executed")

\* check=True: what subprocess.run raises for an outcome of the child process
SubprocessError(outcome) ==
    CASE outcome = "zero" -> None
      [] outcome = "nonzero" -> Exception("CalledProcessError", "Command returned non-zero exit status")
      [] outcome = "notstarted" -> Exception("OSError", "Command could not be executed")

SubprocessOutcomes == {"zero", "nonzero", "notstarted"}

\* -------------------------------------------------------- patch_with_nerd_fonts
\* patcher_dir / "font-patcher"
FontPatcherScript == Path(<<"FontPatcher">>, <<"font-patcher">>, <<>>)

\* a variant of IsNerdTtf for the pattern "*.ttf"
MutIsNerdTtf(p) == EndsWithExt(p, <<"ttf">>)

\* output_dir.glob("*Nerd*.ttf") on one file name
IsNerdTtf(p) ==
    /\ EndsWithExt(p, <<"ttf">>)
    /\ \/ Contains(p.stem, "Nerd")
       \/ \E i \in 1..(Len(p.ext) - 1) : p.ext[i] = "Nerd"

\* a directory after a file was written into it (a file of that name is replaced)
PutFile(dir, f) == {g \in dir : g.name # f.name} \cup {f}

\* ------------------------------------------------------ font selection in main
\* 'Regular' in font.name and 'Mono' in font.name
IsLxgwRegular(font) == Contains(font.stem, "Regular") /\ Contains(font.stem, "Mono")

\* 'Regular' in font.name and 'Mono' not in font.parent.name, then
\* font.parent.name == 'ttf'
IsJbRegular(font) ==
    /\ Contains(font.stem, "Regular")
    /\ ~Contains(font.parent, "Mono")
    /\ font.parent = <<"ttf">>

\* a variant of Fallback that takes the last font of the list
MutFallback(found, fonts) ==
    IF found # None THEN found
    ELSE IF fonts # <<>> THEN fonts[Len(fonts)] ELSE None

\* <x>_regular = <x>_fonts[0] if <x>_fonts else None, when no Regular was found
Fallback(found, fonts) ==
    IF found # None THEN found
    ELSE IF fonts # <<>> THEN fonts[1] ELSE None

\* a variant of RequiredFontsMissing with "and" for "or"
MutRequiredFontsMissing(l, j) == l = None /\ j = None

\* not lxgw_regular or not jb_regular
RequiredFontsMissing(l, j) == l = None \/ j = None

LxgwWarning == "Warning: Could not find LXGW Regular font, using first available"
JbWarning == "Warning: Could not find JetBrains Mono Regular font, using first available"
NoFontsMsg == "Could not find required fonts for merging"

\* merged_dir / "LXGWJB-Mono-Regular.ttf"
MergedFontPath == Path(<<"merged">>, <<"LXGWJB-", "Mono", "-Regular">>, <<"ttf">>)

\* ------------------------------------------------- what the outside world supplies
\* names of release assets: two that pass the repository's filter and one that
\* has the right prefix and the wrong extension
AssetNames(r) ==
    CASE r = "lxgw" -> { Path(<<>>, <<"lxgw-wenkai-", "v1">>, <<"tar", "gz">>),
                         Path(<<>>, <<"lxgw-wenkai-", "lite-", "v1">>, <<"tar", "gz">>),
                         Path(<<>>, <<"lxgw-wenkai-", "v1">>, <<"zip">>) }
      [] r = "jb" -> { Path(<<>>, <<"JetBrainsMono-", "2">>, <<"zip">>),
                       Path(<<>>, <<"JetBrainsMono-", "2", "-src">>, <<"zip">>),
                       Path(<<>>, <<"JetBrainsMono-", "2">>, <<"tar", "gz">>) }
      [] r = "nerd" -> { Path(<<>>, <<"FontPatcher">>, <<"zip">>),
                         Path(<<>>, <<"FontPatcher">>, <<"tar", "xz">>),
                         Path(<<>>, <<"JetBrainsMono">>, <<"zip">>) }

Assets(r) == {[name |-> n] : n \in AssetNames(r)}

LxgwMonoRegular == Path(<<"lxgw">>, <<"LXGWWenKai", "Mono", "-", "Regular">>, <<"ttf">>)
LxgwRegular == Path(<<"lxgw">>, <<"LXGWWenKai", "-", "Regular">>, <<"ttf">>)
LxgwMonoBold == Path(<<"lxgw">>, <<"LXGWWenKai", "Mono", "-", "Bold">>, <<"ttf">>)
LxgwMonoLight == Path(<<"lxgw">>, <<"LXGWWenKai", "Mono", "-", "Light">>, <<"ttf">>)

JbTtfRegular == Path(<<"ttf">>, <<"JetBrains", "Mono", "-", "Regular">>, <<"ttf">>)
JbVariableRegular == Path(<<"variable">>, <<"JetBrains", "Mono", "-", "Regular">>, <<"ttf">>)
JbTtfBold == Path(<<"ttf">>, <<"JetBrains", "Mono", "-", "Bold">>, <<"ttf">>)
JbTtfItalic == Path(<<"ttf">>, <<"JetBrains", "Mono", "-", "Italic">>, <<"ttf">>)
JbWebRegular == Path(<<"webfonts">>, <<"JetBrains", "Mono", "-", "Regular">>, <<"woff2">>)

\* files an archive of a repository may hold
Members(r) ==
    CASE r = "lxgw" -> {LxgwMonoRegular, LxgwRegular, LxgwMonoBold, LxgwMonoLight}
      [] r = "jb" -> {JbTtfRegular, JbVariableRegular, JbTtfBold, JbTtfItalic, JbWebRegular}
      [] r = "nerd" -> {FontPatcherScript}

Tags(r) ==
    CASE r = "lxgw" -> {"v1.520", "v1.521"}
      [] r = "jb" -> {"v2.304", "v2.305"}
      [] r = "nerd" -> {"v3.4.0", "v3.4.1"}

\* any release payload, any archive content, network and archive errors
AnyUpstream ==
    [ tags       |-> [r \in {"lxgw", "jb", "nerd"} |-> Tags(r)],
      assetLists |-> [r \in {"lxgw", "jb", "nerd"} |-> SeqsUpTo(Assets(r), MaxAssets)],
      members    |-> [r \in {"lxgw", "jb", "nerd"} |-> SubsetsUpTo(Members(r), MaxFonts)],
      intact     |-> BOOLEAN,
      reachable  |-> BOOLEAN ]

\* the releases as published: one matching asset each, archives that hold the
\* Regular fonts, the patcher archive with or without font-patcher; the
\* network may fail and a download may be damaged
SteadyUpstream ==
    [ tags       |-> [r \in {"lxgw", "jb", "nerd"} |-> {CHOOSE t \in Tags(r) : TRUE}],
      assetLists |-> [r \in {"lxgw", "jb", "nerd"} |->
                         {<<a>> : a \in {b \in Assets(r) : AssetMatches(r, b.name)}}],
      members    |-> [r \in {"lxgw", "jb", "nerd"} |->
                         CASE r = "lxgw" -> {{LxgwMonoRegular}}
                           [] r = "jb" -> {{JbTtfRegular}}
                           [] r = "nerd" -> SUBSET {FontPatcherScript}],
      intact     |-> BOOLEAN,
      reachable  |-> BOOLEAN ]

\* names of the files the patcher may leave in its output directory
PatcherOutputs ==
    { Path(<<"patched">>, <<"LXGWJB", "Nerd", "Font-Regular">>, <<"ttf">>),
      Path(<<"patched">>, <<"LXGWJB", "Nerd", "FontMono-Regular">>, <<"ttf">>),
      Path(<<"patched">>, <<"LXGWJB-Mono-Regular">>, <<"ttf">>) }

\* the destination directory of each repository's extraction
DestDir(r) ==
    CASE r = "lxgw" -> "lxgw"
      [] r = "jb" -> "jetbrains"
      [] r = "nerd" -> "FontPatcher"

\* ---------------------------------------------------------------------- state
VARIABLES
    pc,                \* position of the process in main / the top-level handler
    step,              \* which of the three download blocks main is in (1..3)
    run,               \* number of this run of the script
    version,           \* lxgw_version, jb_version, nerd_version
    asset,             \* lxgw_asset / jb_asset / patcher_asset of the current block
    archive,           \* the archive file download_file wrote for the current block
    lxgw_fonts, jb_fonts,
    lxgw_regular, jb_regular,
    final_font,
    exc,               \* the exception propagating out of main, or None
    exitCode,          \* <<>> while the process runs, then <<code>>
    stdout, stderr,    \* what was printed (warnings and the version report; messages)
    dirs,              \* work/extracts/lxgw, work/extracts/jetbrains, work/FontPatcher
    patcherExecutable, \* mode bit of work/FontPatcher/font-patcher
    tmpScript,         \* content of work/merged/merge_temp.py, or None
    mergedFont,        \* work/merged/LXGWJB-Mono-Regular.ttf, or None
    patchedDir,        \* files of work/patched: [name, by (the run that wrote it)]
    outputDir,         \* files of output/
    log,               \* history: the calls and outcomes of this run, in order
    ex,                \* one call of extract_archive on its own
    ff                 \* fontforge executing a generated script

locals == <<version, asset, archive, lxgw_fonts, jb_fonts, lxgw_regular, jb_regular, final_font>>
control == <<pc, step, run, exc>>
io == <<exitCode, stdout, stderr>>
fs == <<dirs, patcherExecutable, tmpScript, mergedFont, patchedDir, outputDir>>
harness == <<ex, ff>>
vars == <<control, locals, io, fs, log, harness>>

NoDir == [exists |-> FALSE, entries |-> {}]

\* a fresh checkout and a process about to enter main
InitRun ==
    /\ pc = "setup" /\ step = 1 /\ run = 1 /\ exc = None
    /\ version = [r \in {"lxgw", "jb", "nerd"} |-> ""]
    /\ asset = None /\ archive = None
    /\ lxgw_fonts = <<>> /\ jb_fonts = <<>>
    /\ lxgw_regular = None /\ jb_regular = None /\ final_font = None
    /\ exitCode = <<>> /\ stdout = <<>> /\ stderr = <<>>
    /\ dirs = [d \in {"lxgw", "jetbrains", "FontPatcher"} |-> NoDir]
    /\ patcherExecutable = FALSE
    /\ tmpScript = None /\ mergedFont = None
    /\ patchedDir = {} /\ outputDir = {}
    /\ log = <<>>

Init == InitRun /\ ex = None /\ ff = None

\* raise e: control leaves main for the top-level handler
Raise(e) == pc' = "raised" /\ exc' = e /\ UNCHANGED <<step, run>>

Goto(label) == pc' = label /\ UNCHANGED <<step, run, exc>>

Logged(event) == log' = Append(log, event)

\* ------------------------------------------------------------------- main
\* work_dir.mkdir(exist_ok=True) and the five sub-directories
Setup ==
    /\ pc = "setup"
    /\ Goto("fetch")
    /\ UNCHANGED <<locals, io, fs, log, harness>>

\* get_latest_release(repo), <x>_version = release['tag_name'], the asset loop
\* and "if not <x>_asset: raise"
FetchRelease(upstream) ==
    /\ pc = "fetch"
    /\ LET r == RepoOrder[step] IN
       \/ /\ FALSE \in upstream.reachable
          /\ Raise(Exception("URLError", "urlopen error"))
          /\ Logged(<<"fetch failed", r>>)
          /\ UNCHANGED <<locals, io, fs, harness>>
       \/ \E tag \in upstream.tags[r], assets \in upstream.assetLists[r] :
            LET found == FindAsset(r, assets) IN
            /\ version' = [version EXCEPT ![r] = tag]
            /\ IF found = None
               THEN /\ Raise(Exception("RuntimeError", AssetMissingMsg(r)))
                    /\ Logged(<<"no asset", r, tag>>)
                    /\ UNCHANGED asset
               ELSE /\ Goto("download")
                    /\ Logged(<<"asset", r, tag>>)
                    /\ asset' = found
            /\ UNCHANGED <<archive, lxgw_fonts, jb_fonts, lxgw_regular, jb_regular,
                           final_font, io, fs, harness>>

\* download_file(asset['browser_download_url'], downloads_dir / name)
Download(upstream) ==
    /\ pc = "download"
    /\ LET r == RepoOrder[step] IN
       \/ /\ FALSE \in upstream.reachable
          /\ Raise(Exception("URLError", "urlretrieve error"))
          /\ Logged(<<"download failed", r>>)
          /\ UNCHANGED <<locals, io, fs, harness>>
       \/ \E members \in upstream.members[r], intact \in upstream.intact :
            /\ archive' = [name |-> ArchiveName(r, asset), members |-> members, ok |-> intact]
            /\ Goto("extract")
            /\ Logged(<<"download", r>>)
            /\ UNCHANGED <<version, asset, lxgw_fonts, jb_fonts, lxgw_regular, jb_regular,
                           final_font, io, fs, harness>>

\* extract_archive(archive, dest); after the third block, patcher_script.chmod(0o755)
Extract ==
    /\ pc = "extract"
    /\ LET r == RepoOrder[step]
           d == DestDir(r)
           res == extract_archive(archive, dirs[d])
       IN
       /\ dirs' = [dirs EXCEPT ![d] = res.dest]
       /\ IF res.exc # None
          THEN /\ Raise(res.exc)
               /\ Logged(<<"extract failed", r>>)
               /\ UNCHANGED patcherExecutable
          ELSE /\ Logged(<<"extract", r>>)
               /\ exc' = exc /\ run' = run
               /\ IF step < Len(RepoOrder)
                  THEN /\ step' = step + 1 /\ pc' = "fetch"
                       /\ UNCHANGED patcherExecutable
                  ELSE /\ step' = step /\ pc' = "find"
                       /\ patcherExecutable' = (FontPatcherScript \in res.dest.entries)
    /\ UNCHANGED <<locals, io, tmpScript, mergedFont, patchedDir, outputDir, harness>>

\* lxgw_fonts = find_fonts(extracts_dir / "lxgw"), jb_fonts = find_fonts(... "jetbrains")
FindFonts ==
    /\ pc = "find"
    /\ \E l \in Perms(find_fonts(dirs["lxgw"].entries)),
          j \in Perms(find_fonts(dirs["jetbrains"].entries)) :
            lxgw_fonts' = l /\ jb_fonts' = j
    /\ Goto("select")
    /\ UNCHANGED <<version, asset, archive, lxgw_regular, jb_regular, final_font,
                   io, fs, log, harness>>

\* the two Regular loops, the two fallbacks and the "required fonts" check
SelectFonts ==
    /\ pc = "select"
    /\ LET l == FirstMatch(lxgw_fonts, {i \in 1..Len(lxgw_fonts) : IsLxgwRegular(lxgw_fonts[i])})
           j == FirstMatch(jb_fonts, {i \in 1..Len(jb_fonts) : IsJbRegular(jb_fonts[i])})
           warnings == (IF l = None THEN <<LxgwWarning>> ELSE <<>>)
                       \o (IF j = None THEN <<JbWarning>> ELSE <<>>)
       IN
       /\ lxgw_regular' = Fallback(l, lxgw_fonts)
       /\ jb_regular' = Fallback(j, jb_fonts)
       /\ stdout' = stdout \o warnings
       /\ IF RequiredFontsMissing(lxgw_regular', jb_regular')
          THEN Raise(Exception("RuntimeError", NoFontsMsg)) /\ Logged(<<"select", "failed">>)
          ELSE Goto("merge_write") /\ Logged(<<"select", "done">>)
    /\ UNCHANGED <<version, asset, archive, lxgw_fonts, jb_fonts, final_font,
                   exitCode, stderr, fs, harness>>

\* merge_fonts, up to merge_script_path.write_text(merge_script); merged_dir
\* exists since Setup, and the write is taken to succeed
MergeWrite ==
    /\ pc = "merge_write"
    /\ tmpScript' = merge_script(lxgw_regular, jb_regular, MergedFontPath)
    /\ Goto("merge_run")
    /\ Logged(<<"merge", "call">>)
    /\ UNCHANGED <<locals, io, dirs, patcherExecutable, mergedFont, patchedDir, outputDir, harness>>

\* merge_fonts, the try block: subprocess.run(["fontforge", "-script", ...],
\* check=True) and the finally clause
MergeRun ==
    /\ pc = "merge_run"
    /\ \E outcome \in SubprocessOutcomes :
         /\ mergedFont' = IF outcome = "zero"
                          THEN [name |-> tmpScript.output_path,
                                base |-> tmpScript.base_open,
                                chinese |-> tmpScript.chinese_open,
                                by |-> run]
                          ELSE mergedFont
         /\ tmpScript' = MergeCleanup(tmpScript, outcome)
         /\ Logged(<<"merge", outcome>>)
         /\ IF SubprocessError(outcome) = None
            THEN Goto("patch")
            ELSE Raise(SubprocessError(outcome))
    /\ UNCHANGED <<locals, io, dirs, patcherExecutable, patchedDir, outputDir, harness>>

\* not patcher_script.exists()
PatcherMissing(patcher_dir) == FontPatcherScript \notin patcher_dir.entries

\* patched_fonts = list(output_dir.glob("*Nerd*.ttf"))
PatchScan(dir) == {f \in dir : IsNerdTtf(f.name)}

\* patch_with_nerd_fonts(merged_font, patcher_dir, patched_dir)
Patch ==
    /\ pc = "patch"
    /\ IF PatcherMissing(dirs["FontPatcher"])
       THEN /\ Raise(Exception("FileNotFoundError", "Nerd Font patcher not found"))
            /\ Logged(<<"patch", "no patcher">>)
            /\ UNCHANGED <<final_font, patchedDir>>
       ELSE \E outcome \in (IF patcherExecutable THEN SubprocessOutcomes ELSE {"notstarted"}),
               W \in SUBSET PatcherOutputs :
              LET written == IF outcome = "notstarted" THEN {} ELSE W
                  after == {g \in patchedDir : g.name \notin written}
                               \cup {[name |-> n, by |-> run] : n \in written}
                  scan == PatchScan(after)
              IN
              /\ patchedDir' = after
              /\ Logged(<<"patch", outcome>>)
              /\ IF SubprocessError(outcome) # None
                 THEN Raise(SubprocessError(outcome)) /\ UNCHANGED final_font
                 ELSE IF scan = {}
                 THEN /\ Raise(Exception("RuntimeError", "No patched font found"))
                      /\ UNCHANGED final_font
                 ELSE /\ \E patched_fonts \in Perms(scan) : final_font' = patched_fonts[1]
                      /\ Goto("copy")
    /\ UNCHANGED <<version, asset, archive, lxgw_fonts, jb_fonts, lxgw_regular, jb_regular,
                   io, dirs, patcherExecutable, tmpScript, mergedFont, outputDir, harness>>

\* a variant of VersionReport with two of the versions interchanged
MutVersionReport(v) ==
    << <<"LXGW WenKai", v["lxgw"]>>, <<"JetBrains Mono", v["nerd"]>>, <<"Nerd Fonts", v["jb"]>> >>

\* the three "Versions used" lines
VersionReport(v) ==
    << <<"LXGW WenKai", v["lxgw"]>>, <<"JetBrains Mono", v["jb"]>>, <<"Nerd Fonts", v["nerd"]>> >>

\* shutil.copy2(final_font, output_dir / final_font.name) and the success report
Copy ==
    /\ pc = "copy"
    /\ \/ /\ Raise(Exception("OSError", "copy failed"))
          /\ Logged(<<"copy", "failed">>)
          /\ UNCHANGED <<outputDir, stdout>>
       \/ /\ outputDir' = PutFile(outputDir,
                 [name |-> [final_font.name EXCEPT !.parent = <<"output">>], by |-> final_font.by])
          /\ stdout' = stdout \o VersionReport(version)
          /\ Logged(<<"copy", "done">>)
          /\ Goto("returned")
    /\ UNCHANGED <<locals, exitCode, stderr, dirs, patcherExecutable, tmpScript, mergedFont,
                   patchedDir, harness>>

\* ---------------------------------------------------------- if __name__ == ...
\* a variant of TopLevelOutcome whose handler prints and does not call sys.exit
MutTopLevelOutcome(raised, e) ==
    IF raised THEN [err |-> <<e.msg>>, code |-> 0] ELSE [err |-> <<>>, code |-> 0]

\* except Exception as e: print(f"\nError: {e}", file=sys.stderr); sys.exit(1),
\* and the exit of a script that ran to its end
TopLevelOutcome(raised, e) ==
    IF raised THEN [err |-> <<e.msg>>, code |-> 1] ELSE [err |-> <<>>, code |-> 0]

\* try: main()  except Exception as e: ...
TopLevel ==
    /\ pc \in {"returned", "raised"}
    /\ LET out == TopLevelOutcome(pc = "raised", exc) IN
       stderr' = stderr \o out.err /\ exitCode' = <<out.code>>
    /\ Goto("exited")
    /\ UNCHANGED <<locals, stdout, fs, log, harness>>

\* the script is started again in the same directory
NewRun ==
    /\ pc = "exited"
    /\ run < MaxRuns
    /\ pc' = "setup" /\ step' = 1 /\ run' = run + 1 /\ exc' = None
    /\ version' = [r \in {"lxgw", "jb", "nerd"} |-> ""]
    /\ asset' = None /\ archive' = None
    /\ lxgw_fonts' = <<>> /\ jb_fonts' = <<>>
    /\ lxgw_regular' = None /\ jb_regular' = None /\ final_font' = None
    /\ exitCode' = <<>> /\ stdout' = <<>> /\ stderr' = <<>>
    /\ log' = <<>>
    /\ UNCHANGED <<fs, harness>>

\* one run of the script, against whatever the hosting service serves
Next ==
    \/ Setup
    \/ FetchRelease(AnyUpstream)
    \/ Download(AnyUpstream)
    \/ Extract
    \/ FindFonts
    \/ SelectFonts
    \/ MergeWrite
    \/ MergeRun
    \/ Patch
    \/ Copy
    \/ TopLevel

Spec == Init /\ [][Next]_vars

\* repeated runs in one directory, against unchanged releases
NextRuns ==
    \/ Setup
    \/ FetchRelease(SteadyUpstream)
    \/ Download(SteadyUpstream)
    \/ Extract
    \/ FindFonts
    \/ SelectFonts
    \/ MergeWrite
    \/ MergeRun
    \/ Patch
    \/ Copy
    \/ TopLevel
    \/ NewRun

SpecRuns == Init /\ [][NextRuns]_vars

\* --------------------------------------------- extract_archive, called on its own
\* archive names: the recognised extensions and near misses of them
ExtractNames ==
    { Path(<<"downloads">>, <<"fonts">>, e) :
        e \in { <<"zip">>, <<"tar", "gz">>, <<"tgz">>, <<"v2", "zip">>,
                <<>>, <<"tar">>, <<"gz">>, <<"7z">>, <<"tar", "xz">>, <<"zip", "part">>,
                <<"ZIP">>, <<"gz", "tar">> } }

ExtractMembers == Members("jb")

\* one call extract_archive(archive_path, dest_dir): any archive, and a
\* destination that does not exist yet or holds earlier files
InitExtract ==
    /\ InitRun /\ ff = None
    /\ \E n \in ExtractNames, m \in SubsetsUpTo(ExtractMembers, MaxFonts), intact \in BOOLEAN,
          d \in {NoDir} \cup {[exists |-> TRUE, entries |-> e] :
                                 e \in SubsetsUpTo(ExtractMembers, MaxFonts)} :
         ex = [ pc |-> "call",
                archive |-> [name |-> n, members |-> m, ok |-> intact],
                before |-> d, dest |-> d, exc |-> None ]

ExtractCall ==
    /\ ex # None /\ ex.pc = "call"
    /\ LET res == extract_archive(ex.archive, ex.dest) IN
       ex' = [ex EXCEPT !.pc = IF res.exc = None THEN "returned" ELSE "raised",
                        !.dest = res.dest, !.exc = res.exc]
    /\ UNCHANGED <<control, locals, io, fs, log, ff>>

NextExtract == ExtractCall

SpecExtract == InitExtract /\ [][NextExtract]_vars

\* ------------------------------------- the generated script, executed by fontforge
\* code points on both sides of every end of the three ranges, and a Latin one
CodePoints ==
    { 65, 12287, 12288, 12351, 12352, 13311, 13312, 19903, 19904, 19967, 19968, 40959, 40960 }

\* font files whose names hold a character that is special inside a Python
\* string literal: a double quote, a backslash before a t
QuoteNamed == Path(<<"lxgw">>, <<"LXGW", "\"", "Mono", "-", "Regular">>, <<"ttf">>)
BackslashNamed == Path(<<"jetbrains">>, <<"fonts", "\\t", "tf-", "Regular">>, <<"ttf">>)

FontPaths == {LxgwMonoRegular, JbTtfRegular, QuoteNamed, BackslashNamed}

FontId(p) ==
    CASE p = LxgwMonoRegular -> "LXGW WenKai Mono"
      [] p = JbTtfRegular -> "JetBrains Mono"
      [] p = QuoteNamed -> "LXGW Quote"
      [] p = BackslashNamed -> "JetBrains Backslash"

\* "{path}" in the script text: the path is interpolated as it is, between
\* double quotes. A double quote inside it ends the literal early and the
\* script does not parse.
LiteralParses(text) == ~Contains(text.parent, "\"") /\ ~Contains(text.stem, "\"")

\* the string Python reads back from the literal: backslash-t is the escape
\* sequence of a tab
Unescape(tokens) ==
    [i \in 1..Len(tokens) |-> IF tokens[i] = "\\t" THEN "\t" ELSE tokens[i]]

LiteralValue(text) == [text EXCEPT !.parent = Unescape(text.parent), !.stem = Unescape(text.stem)]

\* the font file at path p, with glyphs of its own design at the code points S;
\* a glyph is [cp (its encoding slot), from (the design it was drawn in)]
FontFile(p, S) ==
    [ glyphs     |-> {[cp |-> c, from |-> FontId(p)] : c \in S},
      familyname |-> FontId(p),
      fullname   |-> FontId(p),
      fontname   |-> FontId(p) ]

\* for encoding in range(...): if encoding in chinese: select, copy, paste
CopyRange(base, chinese, range) ==
    LET copied == {g \in chinese : InRange(g.cp, range)}
    IN  {g \in base : \A h \in copied : h.cp # g.cp} \cup copied

\* the code points at which a font file may hold glyphs
GlyphSets == SubsetsUpTo(CodePoints, MaxGlyphs)

\* merge_fonts(lxgw_font, jb_font, output_font) has written its script; both
\* fonts exist, with any glyphs
InitMerge ==
    /\ InitRun /\ ex = None
    /\ \E l \in FontPaths, j \in FontPaths,
          gl \in GlyphSets, gj \in GlyphSets :
         ff = [ pc |-> "parse",
                args |-> [lxgw_font |-> l, jb_font |-> j, output_font |-> MergedFontPath],
                script |-> merge_script(l, j, MergedFontPath),
                files |-> [p \in FontPaths |->
                             FontFile(p, CASE p = LxgwMonoRegular -> gl
                                           [] p = JbTtfRegular -> gj
                                           [] OTHER -> {})],
                base |-> None, chinese |-> None, loop |-> 1, generated |-> None ]

\* fontforge -script merge_temp.py: the script is compiled before any of it runs
FFParse ==
    /\ ff # None /\ ff.pc = "parse"
    /\ ff' = [ff EXCEPT !.pc =
                IF /\ LiteralParses(ff.script.base_open)
                   /\ LiteralParses(ff.script.chinese_open)
                   /\ LiteralParses(ff.script.output_path)
                THEN "open_base" ELSE "SyntaxError"]
    /\ UNCHANGED <<control, locals, io, fs, log, ex>>

\* fontforge.open(literal): the font file at the path the literal denotes, if any
OpenFont(files, literal) ==
    IF LiteralValue(literal) \in DOMAIN files THEN files[LiteralValue(literal)] ELSE None

\* base = fontforge.open("{jb_font}")
FFOpenBase ==
    /\ ff # None /\ ff.pc = "open_base"
    /\ LET font == OpenFont(ff.files, ff.script.base_open) IN
       ff' = [ff EXCEPT !.base = font,
                        !.pc = IF font = None THEN "OSError" ELSE "open_chinese"]
    /\ UNCHANGED <<control, locals, io, fs, log, ex>>

\* chinese = fontforge.open("{lxgw_font}")
FFOpenChinese ==
    /\ ff # None /\ ff.pc = "open_chinese"
    /\ LET font == OpenFont(ff.files, ff.script.chinese_open) IN
       ff' = [ff EXCEPT !.chinese = font,
                        !.pc = IF font = None THEN "OSError" ELSE "copy"]
    /\ UNCHANGED <<control, locals, io, fs, log, ex>>

\* one of the three for loops, run to its end
FFCopyLoop ==
    /\ ff # None /\ ff.pc = "copy"
    /\ ff' = [ff EXCEPT
                !.base.glyphs = CopyRange(ff.base.glyphs, ff.chinese.glyphs, ff.script.ranges[ff.loop]),
                !.loop = ff.loop + 1,
                !.pc = IF ff.loop = Len(ff.script.ranges) THEN "names" ELSE "copy"]
    /\ UNCHANGED <<control, locals, io, fs, log, ex>>

\* base.familyname = ..., base.fullname = ..., base.fontname = ...
FFSetNames ==
    /\ ff # None /\ ff.pc = "names"
    /\ ff' = [ff EXCEPT !.base.familyname = ff.script.familyname,
                        !.base.fullname = ff.script.fullname,
                        !.base.fontname = ff.script.fontname,
                        !.pc = "generate"]
    /\ UNCHANGED <<control, locals, io, fs, log, ex>>

\* base.generate(output_path), then base.close() and chinese.close()
FFGenerate ==
    /\ ff # None /\ ff.pc = "generate"
    /\ ff' = [ff EXCEPT !.generated = [path |-> ff.script.output_path, font |-> ff.base],
                        !.pc = "closed"]
    /\ UNCHANGED <<control, locals, io, fs, log, ex>>

NextMerge ==
    \/ FFParse
    \/ FFOpenBase
    \/ FFOpenChinese
    \/ FFCopyLoop
    \/ FFSetNames
    \/ FFGenerate

SpecMerge == InitMerge /\ [][NextMerge]_vars

\* ===================================================================== claims
InLog(event) == \E i \in 1..Len(log) : log[i] = event

\* some event of the given step is in the log
Did(what) == \E i \in 1..Len(log) : log[i][1] = what

\* every event of step `what` comes after the event `before`
Follows(what, before) ==
    \A i \in 1..Len(log) : log[i][1] = what => \E j \in 1..(i - 1) : log[j] = before

Listed(fonts) == {fonts[i] : i \in 1..Len(fonts)}

\* C1: work/merged/merge_temp.py exists only while merge_fonts is inside its
\* try block: it is absent whenever merge_fonts is not executing, in
\* particular once the call has returned (fontforge exited zero) or raised
\* (fontforge exited non-zero, or could not be started), in every run.
C1_TempScriptRemoved ==
    /\ pc # "merge_run" => tmpScript = None
    /\ \A outcome \in SubprocessOutcomes : InLog(<<"merge", outcome>>) => tmpScript = None

\* a second run in which fontforge could not be started: merge_fonts raised and
\* the script is gone
C1_Witness ==
    /\ run = MaxRuns /\ pc = "raised"
    /\ log[Len(log)] = <<"merge", "notstarted">>
    /\ tmpScript = None

\* the call of patch_with_nerd_fonts has just ended (returned or raised)
PatchEnded == log # <<>> /\ log[Len(log)][1] = "patch"

\* files of work/patched that match *Nerd*.ttf, read off the names
NerdFilesOnDisk ==
    {f \in patchedDir : Contains(f.name.stem, "Nerd") /\ f.name.ext = <<"ttf">>}

\* C2: when patch_with_nerd_fonts ends: if font-patcher is absent it raised
\* FileNotFoundError and no subprocess was started (nothing was written); if
\* the subprocess exited zero and no *Nerd*.ttf file is in the output
\* directory it raised RuntimeError; if the subprocess exited zero and there
\* are such files it returned one of them.
C2_PatcherErrors ==
    PatchEnded =>
      /\ FontPatcherScript \notin dirs["FontPatcher"].entries =>
           /\ exc # None /\ exc.type = "FileNotFoundError"
           /\ log[Len(log)] = <<"patch", "no patcher">>
           /\ \A f \in patchedDir : f.by # run
      /\ (log[Len(log)] = <<"patch", "zero">> /\ NerdFilesOnDisk = {}) =>
           /\ exc # None /\ exc.type = "RuntimeError"
           /\ final_font = None
      /\ (log[Len(log)] = <<"patch", "zero">> /\ NerdFilesOnDisk # {}) =>
           /\ exc = None /\ pc = "copy"
           /\ final_font \in NerdFilesOnDisk

\* the patcher exited zero, left only a file without "Nerd" in its name, and
\* the call raised RuntimeError
C2_Witness ==
    /\ PatchEnded /\ log[Len(log)] = <<"patch", "zero">>
    /\ patchedDir # {} /\ NerdFilesOnDisk = {}
    /\ exc # None /\ exc.type = "RuntimeError"

\* the name ends in none of .zip, .tar.gz, .tgz
Unrecognised(name) ==
    LET n == Len(name.ext) IN
    ~ \/ (n >= 1 /\ name.ext[n] \in {"zip", "tgz"})
      \/ (n >= 2 /\ name.ext[n - 1] = "tar" /\ name.ext[n] = "gz")

\* C3: a call of extract_archive on an archive whose name ends in none of the
\* recognised extensions raises ValueError, and the destination directory
\* holds the same entries after the call as before it.
C3_UnsupportedFormat ==
    (ex # None /\ ex.pc # "call" /\ Unrecognised(ex.archive.name)) =>
      /\ ex.pc = "raised" /\ ex.exc.type = "ValueError"
      /\ ex.dest.entries = ex.before.entries

\* an intact archive with members, named *.tar: ValueError, and a destination
\* that did not exist before is there afterwards, empty
C3_Witness ==
    /\ ex # None /\ ex.pc = "raised"
    /\ ex.archive.name.ext = <<"tar">> /\ ex.archive.ok /\ ex.archive.members # {}
    /\ ex.exc.type = "ValueError"
    /\ ~ex.before.exists /\ ex.dest.exists /\ ex.dest.entries = {}

\* the log of a run in which every step of main completed
CompleteRun(l) ==
    /\ Len(l) = 14
    /\ \A k \in 1..3 :
         /\ l[3 * k - 2][1] = "asset" /\ l[3 * k - 2][2] = RepoOrder[k]
         /\ l[3 * k - 1] = <<"download", RepoOrder[k]>>
         /\ l[3 * k] = <<"extract", RepoOrder[k]>>
    /\ l[10] = <<"select", "done">>
    /\ l[11] = <<"merge", "call">> /\ l[12] = <<"merge", "zero">>
    /\ l[13] = <<"patch", "zero">> /\ l[14] = <<"copy", "done">>

\* some step of main failed
StepFailed ==
    \E i \in 1..Len(log) :
       \/ log[i][1] \in {"fetch failed", "no asset", "download failed", "extract failed"}
       \/ log[i] \in { <<"select", "failed">>, <<"merge", "nonzero">>, <<"merge", "notstarted">>,
                       <<"patch", "no patcher">>, <<"patch", "nonzero">>,
                       <<"patch", "notstarted">>, <<"copy", "failed">> }
       \/ (log[i] = <<"patch", "zero">> /\ i = Len(log) /\ pc # "copy")

\* C4: the process has an exit code only once it has ended; it ends with code
\* 0 exactly when every step of main completed, and then nothing was written
\* to the error stream; when a step failed, the exception reaches the
\* top-level handler, which writes its message to the error stream (once)
\* and exits with code 1.
C4_ExitCode ==
    /\ (pc = "exited") <=> (exitCode # <<>>)
    /\ StepFailed => pc \in {"raised", "exited"} /\ exc # None
    /\ pc = "exited" =>
         /\ exitCode \in {<<0>>, <<1>>}
         /\ exitCode = <<0>> <=> CompleteRun(log)
         /\ exitCode = <<0>> => ~StepFailed /\ exc = None /\ stderr = <<>>
         /\ StepFailed => exitCode = <<1>> /\ stderr = <<exc.msg>>

\* the run failed at the final copy and exited with code 1
C4_Witness ==
    /\ pc = "exited" /\ exitCode = <<1>>
    /\ InLog(<<"copy", "failed">>)
    /\ stderr = <<"copy failed">>

NoRegular(fonts) == \A i \in 1..Len(fonts) : ~Contains(fonts[i].stem, "Regular")

\* C5: once the selection in main is done: a family whose located-fonts list
\* is not empty and holds no file with "Regular" in its name has the first
\* element of that list selected and its warning printed; and when this
\* holds of a family and the other family's list is not empty either, the
\* run went on to merge_fonts instead of raising.
C5_FallbackFirst ==
    Did("select") =>
      /\ (lxgw_fonts # <<>> /\ NoRegular(lxgw_fonts)) =>
           lxgw_regular = lxgw_fonts[1] /\ Contains(stdout, LxgwWarning)
      /\ (jb_fonts # <<>> /\ NoRegular(jb_fonts)) =>
           jb_regular = jb_fonts[1] /\ Contains(stdout, JbWarning)
      /\ ( /\ lxgw_fonts # <<>> /\ jb_fonts # <<>>
           /\ NoRegular(lxgw_fonts) \/ NoRegular(jb_fonts) ) =>
           /\ InLog(<<"select", "done">>)
           /\ pc = "merge_write" \/ InLog(<<"merge", "call">>)

\* two LXGW fonts were located, neither a Regular, the first one was selected
\* and merge_fonts has been called with it
C5_Witness ==
    /\ Len(lxgw_fonts) = 2 /\ NoRegular(lxgw_fonts)
    /\ lxgw_regular = lxgw_fonts[1]
    /\ pc = "merge_run" /\ tmpScript.chinese_open = lxgw_fonts[1]

\* C6: whenever merge_fonts is called, the donor and the base it is called
\* with are members of the located-fonts lists of their families; and when
\* the selection ran with an empty list, the run raised RuntimeError "Could
\* not find required fonts for merging" and neither merge_fonts nor
\* patch_with_nerd_fonts was called.
C6_FontsResolved ==
    /\ InLog(<<"merge", "call">>) =>
         /\ lxgw_regular \in Listed(lxgw_fonts) /\ jb_regular \in Listed(jb_fonts)
    /\ pc = "merge_run" =>
         /\ tmpScript.chinese_open \in Listed(lxgw_fonts)
         /\ tmpScript.base_open \in Listed(jb_fonts)
    /\ (Did("select") /\ (lxgw_fonts = <<>> \/ jb_fonts = <<>>)) =>
         /\ pc \in {"raised", "exited"}
         /\ exc = Exception("RuntimeError", NoFontsMsg)
         /\ ~Did("merge") /\ ~Did("patch")
         /\ tmpScript = None /\ mergedFont = None /\ patchedDir = {}

\* LXGW fonts were located but no JetBrains font: the run ended with the
\* required-fonts error
C6_Witness ==
    /\ pc = "exited" /\ lxgw_fonts # <<>> /\ jb_fonts = <<>>
    /\ stderr = <<NoFontsMsg>> /\ ~Did("merge")

\* the design of the glyph a font has at code point c ("" when it has none)
GlyphAt(font, c) ==
    IF \E g \in font.glyphs : g.cp = c
    THEN (CHOOSE g \in font.glyphs : g.cp = c).from
    ELSE ""

\* the three blocks: U+3000..U+303F, U+3400..U+4DBF, U+4E00..U+9FFF
InThreeBlocks(c) ==
    \/ (12288 <= c /\ c <= 12351)
    \/ (13312 <= c /\ c <= 19903)
    \/ (19968 <= c /\ c <= 40959)

\* C7: the script generated by merge_fonts(lxgw_font, jb_font, output_font)
\* opens jb_font as base and lxgw_font as donor and exports to output_font;
\* the exported font has, at every code point, the donor's glyph if the code
\* point lies in one of the three blocks and the donor has a glyph there, and
\* the base's original glyph (or none) otherwise; the base keeps its names
\* while glyphs are copied, and the exported font carries the three literal
\* names.
C7_MergeScript ==
    ff # None =>
      LET donor == ff.files[ff.args.lxgw_font]
          base == ff.files[ff.args.jb_font]
      IN
      /\ ff.script.chinese_open = ff.args.lxgw_font
      /\ ff.script.base_open = ff.args.jb_font
      /\ ff.script.output_path = ff.args.output_font
      /\ ff.pc = "copy" => ff.base.fontname = base.fontname
      /\ ff.pc = "closed" =>
           /\ ff.generated.path = ff.args.output_font
           /\ \A c \in CodePoints :
                /\ Cardinality({g \in ff.generated.font.glyphs : g.cp = c}) <= 1
                /\ GlyphAt(ff.generated.font, c) =
                     IF InThreeBlocks(c) /\ GlyphAt(donor, c) # ""
                     THEN GlyphAt(donor, c)
                     ELSE GlyphAt(base, c)
           /\ ff.generated.font.familyname = "LXGW JB"
           /\ ff.generated.font.fullname = "LXGW JB Mono"
           /\ ff.generated.font.fontname = "LXGWJB-Mono"

\* donor and base both have a glyph at U+303F, the last code point of the
\* first block: the exported font has the donor's
C7_Witness ==
    /\ ff # None /\ ff.pc = "closed"
    /\ ff.args.lxgw_font = LxgwMonoRegular /\ ff.args.jb_font = JbTtfRegular
    /\ GlyphAt(ff.files[JbTtfRegular], 12351) = "JetBrains Mono"
    /\ GlyphAt(ff.files[LxgwMonoRegular], 12351) = "LXGW WenKai Mono"
    /\ GlyphAt(ff.generated.font, 12351) = "LXGW WenKai Mono"

\* the tag the release payload of repository r supplied in this run
SuppliedTag(r) ==
    log[CHOOSE i \in 1..Len(log) : log[i][1] = "asset" /\ log[i][2] = r][3]

\* C8: a run in which every step succeeded leaves exactly one file in the
\* output directory, the copy of the font the Patcher returned, and the last
\* three lines it printed are the tags the three release payloads supplied,
\* in the order LXGW WenKai, JetBrains Mono, Nerd Fonts.
C8_EndToEnd ==
    (CompleteRun(log) /\ pc \in {"returned", "exited"}) =>
      /\ Cardinality(outputDir) = 1
      /\ \A f \in outputDir :
           /\ f.name = [final_font.name EXCEPT !.parent = <<"output">>]
           /\ f.by = final_font.by
      /\ Len(stdout) >= 3
      /\ SubSeq(stdout, Len(stdout) - 2, Len(stdout)) =
           << <<"LXGW WenKai", SuppliedTag("lxgw")>>,
              <<"JetBrains Mono", SuppliedTag("jb")>>,
              <<"Nerd Fonts", SuppliedTag("nerd")>> >>

\* a successful run with three releases of different age, whose patcher wrote
\* several files: one file is in output/
C8_Witness ==
    /\ pc = "exited" /\ exitCode = <<0>>
    /\ version = [lxgw |-> "v1.521", jb |-> "v2.304", nerd |-> "v3.4.1"]
    /\ Cardinality(patchedDir) > 1 /\ Cardinality(outputDir) = 1

\* C9: in every run, a download of a repository's archive is attempted only
\* after an asset passing that repository's filter was found in its release;
\* the Patcher is called only after merge_fonts returned (fontforge exited
\* zero); the copy into output/ is attempted only after the Patcher returned
\* a path; and after a non-zero exit of fontforge the run is aborted: the
\* Patcher is never called and nothing is copied into output/.
C9_Pipeline ==
    /\ \A i \in 1..Len(log) :
         log[i][1] \in {"download", "download failed"} =>
           \E j \in 1..(i - 1) : log[j][1] = "asset" /\ log[j][2] = log[i][2]
    /\ pc = "download" => asset # None /\ AssetMatches(RepoOrder[step], asset.name)
    /\ Follows("patch", <<"merge", "zero">>)
    /\ Follows("copy", <<"patch", "zero">>)
    /\ Did("copy") => final_font # None /\ final_font \in patchedDir
    /\ InLog(<<"merge", "nonzero">>) =>
         /\ pc \in {"raised", "exited"} /\ exitCode # <<0>>
         /\ ~Did("patch") /\ ~Did("copy")
         /\ patchedDir = {} /\ outputDir = {}

\* fontforge exited non-zero and the process ended with code 1
C9_Witness ==
    /\ pc = "exited" /\ exitCode = <<1>>
    /\ log[Len(log)] = <<"merge", "nonzero">>
    /\ outputDir = {}

\* C10: over runs that share work/ and output/: the font a run copies into
\* output/ was written by that run's own patcher invocation; and a run whose
\* patcher exits zero without having written a file fails with the
\* no-patched-font error.
C10_OwnPatchedFont ==
    /\ InLog(<<"copy", "done">>) => final_font.by = run
    /\ ( /\ PatchEnded /\ log[Len(log)] = <<"patch", "zero">>
         /\ \A f \in patchedDir : f.by # run ) =>
           exc = Exception("RuntimeError", "No patched font found")

====
